---- MODULE Spec2Model ----
(***************************************************************************)
(* Model of the PBKDF2/Fernet dictionary attack scripts.                   *)
(*                                                                         *)
(*   Fase5_cracker.py          candidate generator, verifier, attack loop  *)
(*   Fase4_final_calculator.py closed-form size of the space, estimate     *)
(*   Fase3_benchmark.py        throughput measurement, estimation example  *)
(*                                                                         *)
(* A Python str is a sequence of one-character strings.  The key           *)
(* derivation and the authenticated decryption are library calls: a        *)
(* Target is described by what those calls do on it (which password its    *)
(* token was made with, whether the token parses, whether its plaintext is *)
(* UTF-8 text).                                                            *)
(***************************************************************************)
EXTENDS Integers, Sequences, FiniteSets, TLC

VARIABLES
    dictionary,       \* dictionary_to_use            (Fase5 l.68-73)
    symbols,          \* symbols                      (Fase5 l.64)
    numbers,          \* numbers                      (Fase5 l.65)
    target,           \* what salt/ciphertext (Fase5 l.58-59) stand for
    gen,              \* frame of password_candidates (Fase5 l.130)
    yielded,          \* per base word, how many candidates gen has yielded
    password_guess,   \* loop variable                (Fase5 l.133)
    attempts,         \* Fase5 l.127
    password_found,   \* Fase5 l.126
    pc,               \* position of the attack script
    clock,            \* last value read from time.time(), from start_time
    observations,     \* number of progress lines printed (Fase5 l.140)
    progress,         \* the last progress line: attempts and speed
    reported,         \* password printed by decrypt (Fase5 l.89)
    script,           \* which of the scripts is run
    calc,             \* state of Fase4_final_calculator.py
    bench             \* state of Fase3_benchmark.py

vars == << dictionary, symbols, numbers, target, gen, yielded, password_guess,
           attempts, password_found, pc, clock, observations, progress,
           reported, script, calc, bench >>

----------------------------------------------------------------------------
(* Bounds of the model.                                                    *)

\* most letters in a wordlist of the bounded inputs, all words together
MaxLetters == 3
\* longest wordlist of the bounded inputs
MaxWords == 2
\* largest reading of the wall clock, in ticks since start_time
MaxClock == 1
\* longest duration the benchmark loop is measured to take, in ticks
MaxDuration == 3

----------------------------------------------------------------------------
(* Strings.                                                                *)

LowerLetters ==
    << "a","b","c","d","e","f","g","h","i","j","k","l","m",
       "n","o","p","q","r","s","t","u","v","w","x","y","z" >>

UpperLetters ==
    << "A","B","C","D","E","F","G","H","I","J","K","L","M",
       "N","O","P","Q","R","S","T","U","V","W","X","Y","Z" >>

Range(s) == { s[x] : x \in 1..Len(s) }

\* str.upper() on one character of the model's alphabet: the string it
\* returns (a lowercase ASCII letter maps to its capital, any other
\* character of the alphabet to itself)
upper(c) ==
    IF \E x \in 1..26 : LowerLetters[x] = c
    THEN LET x == CHOOSE y \in 1..26 : LowerLetters[y] = c
         IN  << UpperLetters[x] >>
    ELSE << c >>

\* s[:x] and s[x:] for 0 <= x <= len(s)
Take(s, x) == SubSeq(s, 1, x)
Drop(s, x) == SubSeq(s, x + 1, Len(s))

\* a variant that uppercases the first letter whatever i is
capitalized_word_first(base_word, i) ==
    upper(base_word[1]) \o Drop(base_word, 1)

\* base_word[:i] + base_word[i].upper() + base_word[i+1:]
capitalized_word(base_word, i) ==
    Take(base_word, i) \o upper(base_word[i + 1]) \o Drop(base_word, i + 1)

\* a variant that inserts the symbol twice
word_with_sym_twice(capitalized, symbol, j) ==
    Take(capitalized, j) \o << symbol, symbol >> \o Drop(capitalized, j)

\* capitalized_word[:j] + symbol + capitalized_word[j:]
word_with_sym(capitalized, symbol, j) ==
    Take(capitalized, j) \o << symbol >> \o Drop(capitalized, j)

\* word_with_sym[:k] + number + word_with_sym[k:]
final_password(with_sym, number, k) ==
    Take(with_sym, k) \o << number >> \o Drop(with_sym, k)

----------------------------------------------------------------------------
(* Numbers.  The floats of the source are exact quotients of integers,     *)
(* kept in lowest terms with a positive denominator.                       *)

RECURSIVE GCD(_, _)
GCD(a, b) == IF b = 0 THEN a ELSE GCD(b, a % b)

Abs(a) == IF a < 0 THEN -a ELSE a

Ratio(num, den) ==
    LET g == GCD(Abs(num), den)
    IN  [ num |-> num \div g, den |-> den \div g ]

\* x / y for quotients, y positive
RatDiv(x, y) == Ratio(x.num * y.den, x.den * y.num)

\* x / k for a positive integer k
RatDivInt(x, k) == Ratio(x.num, x.den * k)

FromInt(n) == Ratio(n, 1)

RECURSIVE SumTo(_, _)
\* f[1] + ... + f[n]
SumTo(f, n) == IF n = 0 THEN 0 ELSE f[n] + SumTo(f, n - 1)

----------------------------------------------------------------------------
(* Configuration of the attack script.                                     *)

full_dictionary ==
    << << "g","a","t","t","o" >>,
       << "g","i","u","l","i","a" >>,
       << "m","a","r","t","i","n","a" >>,
       << "p","i","s","a" >>,
       << "p","o","e","s","i","a" >>,
       << "q","w","e","r","t","y" >>,
       << "s","i","c","u","r","e","z","z","a" >>,
       << "s","t","o","r","i","a" >>,
       << "t","a","v","o","l","o" >> >>

reference_symbols == << "!", "$", "%", "&", "?", "^", "*", "+", "@", "#" >>

reference_numbers == << "0","1","2","3","4","5","6","7","8","9" >>

quick_test_dictionary == << << "s","i","c","u","r","e","z","z","a" >> >>

\* dictionary_to_use as chosen from ATTACK_MODE
dictionary_to_use(ATTACK_MODE) ==
    IF ATTACK_MODE = "QUICK_TEST" THEN quick_test_dictionary
    ELSE full_dictionary

\* the password of the controlled test case; no transform of a base word
password_da_usare == << "g","i","o","v","a","n","n","i","0","@" >>

----------------------------------------------------------------------------
(* The Target.  token: what Fernet.decrypt makes of ciphertext ("valid": a  *)
(* well-formed token, "empty": b'', "malformed": bytes that are no token); *)
(* password: the password whose derived key made a valid token; utf8:      *)
(* whether the plaintext of a valid token decodes as UTF-8.                *)

Target(token, password, utf8) ==
    [ token |-> token, password |-> password, utf8 |-> utf8 ]

\* decrypt(passwd_bytes): "True", "False" (InvalidToken was caught), or the
\* exception that leaves the function.  Fernet.decrypt raises InvalidToken
\* for a token it cannot parse and for a key that does not authenticate it;
\* with the right key the two prints run and plaintext.decode('utf-8')
\* raises UnicodeDecodeError when the plaintext is not UTF-8.
decrypt(passwd) ==
    IF target.token # "valid" \/ passwd # target.password THEN "False"
    ELSE IF target.utf8 THEN "True" ELSE "UnicodeDecodeError"

----------------------------------------------------------------------------
(* password_generator: the suspended frame of the generator holds the loop *)
(* variables; w indexes the wordlist from 1, s and d index symbols and     *)
(* numbers from 0, i, j and k are the positions of the source.             *)

Frame(w, i, s, j, d, k) ==
    [ st |-> "yield", w |-> w, i |-> i, s |-> s, j |-> j, d |-> d, k |-> k ]

Fresh == [ st |-> "fresh", w |-> 0, i |-> 0, s |-> 0, j |-> 0, d |-> 0, k |-> 0 ]

Exhausted == [ st |-> "done", w |-> 0, i |-> 0, s |-> 0, j |-> 0, d |-> 0, k |-> 0 ]

Capitalized(f) == capitalized_word(dictionary[f.w], f.i)

WithSym(f) == word_with_sym(Capitalized(f), symbols[f.s + 1], f.j)

\* the string the generator yields when suspended at frame f
Candidate(f) == final_password(WithSym(f), numbers[f.d + 1], f.k)

\* a symbol loop that stops one position short: range(len(capitalized_word))
symbol_positions_short(f) == Len(Capitalized(f))

\* range(len(capitalized_word) + 1)
symbol_positions(f) == Len(Capitalized(f)) + 1

\* a digit loop that stops one position short: range(len(word_with_sym))
number_positions_short(f) == Len(WithSym(f))

\* range(len(word_with_sym) + 1)
number_positions(f) == Len(WithSym(f)) + 1

RECURSIVE EnterWord(_)
\* the first yield at or after word w: the loops over a word of length 0,
\* or over an empty symbol or digit list, have no iteration
EnterWord(w) ==
    IF w > Len(dictionary) THEN Exhausted
    ELSE IF Len(dictionary[w]) > 0 /\ Len(symbols) > 0 /\ Len(numbers) > 0
         THEN Frame(w, 0, 0, 0, 0, 0)
         ELSE EnterWord(w + 1)

\* a generator whose digit loop is outside its symbol-position loop
Resume_swapped(f) ==
    IF f.k + 1 < number_positions(f) THEN [f EXCEPT !.k = f.k + 1]
    ELSE IF f.j + 1 < symbol_positions(f)
         THEN [f EXCEPT !.j = f.j + 1, !.k = 0]
    ELSE IF f.d + 1 < Len(numbers)
         THEN [f EXCEPT !.d = f.d + 1, !.j = 0, !.k = 0]
    ELSE IF f.s + 1 < Len(symbols)
         THEN [f EXCEPT !.s = f.s + 1, !.j = 0, !.d = 0, !.k = 0]
    ELSE IF f.i + 1 < Len(dictionary[f.w])
         THEN [f EXCEPT !.i = f.i + 1, !.s = 0, !.j = 0, !.d = 0, !.k = 0]
    ELSE EnterWord(f.w + 1)

\* resuming after the yield of frame f: the innermost loop that has a next
\* iteration takes it and the loops inside it start again
Resume(f) ==
    IF f.k + 1 < number_positions(f) THEN [f EXCEPT !.k = f.k + 1]
    ELSE IF f.d + 1 < Len(numbers)
         THEN [f EXCEPT !.d = f.d + 1, !.k = 0]
    ELSE IF f.j + 1 < symbol_positions(f)
         THEN [f EXCEPT !.j = f.j + 1, !.d = 0, !.k = 0]
    ELSE IF f.s + 1 < Len(symbols)
         THEN [f EXCEPT !.s = f.s + 1, !.j = 0, !.d = 0, !.k = 0]
    ELSE IF f.i + 1 < Len(dictionary[f.w])
         THEN [f EXCEPT !.i = f.i + 1, !.s = 0, !.j = 0, !.d = 0, !.k = 0]
    ELSE EnterWord(f.w + 1)

\* next(password_candidates)
GenNext(f) ==
    IF f.st = "fresh" THEN EnterWord(1)
    ELSE IF f.st = "yield" THEN Resume(f)
    ELSE Exhausted

\* every string password_generator can yield for a wordlist: the loop body
\* over the ranges of the six loops
CandidateSpace(dict, syms, nums) ==
    UNION { { final_password(
                  word_with_sym(capitalized_word(dict[w], i), syms[s], j),
                  nums[d], k) :
              i \in 0..(Len(dict[w]) - 1), s \in 1..Len(syms),
              j \in 0..Len(dict[w]), d \in 1..Len(nums),
              k \in 0..(Len(dict[w]) + 1) } :
            w \in 1..Len(dict) }

----------------------------------------------------------------------------
(* Bytes literals.  A bytes value is a sequence of numbers 0..255; the     *)
(* text between the quotes of a literal is a sequence of characters.       *)

\* the printable ASCII characters from the space (code 32) to the
\* underscore (code 95)
AsciiLow ==
    << " ","!","\"","#","$","%","&","'","(",")","*","+",",","-",
       ".","/","0","1","2","3","4","5","6","7","8","9",":",";",
       "<","=",">","?","@","A","B","C","D","E","F","G","H","I",
       "J","K","L","M","N","O","P","Q","R","S","T","U","V","W",
       "X","Y","Z","[","\\","]","^","_" >>

\* the printable ASCII characters from a (code 97) to the tilde (code 126)
AsciiHigh ==
    << "a","b","c","d","e","f","g","h","i","j","k","l","m","n",
       "o","p","q","r","s","t","u","v","w","x","y","z","{","|",
       "}","~" >>

\* ord(c) for a printable ASCII character other than the grave accent,
\* which no literal of the scripts holds
ord(c) ==
    IF \E x \in 1..Len(AsciiLow) : AsciiLow[x] = c
    THEN 31 + CHOOSE x \in 1..Len(AsciiLow) : AsciiLow[x] = c
    ELSE 96 + CHOOSE x \in 1..Len(AsciiHigh) : AsciiHigh[x] = c

HexDigits ==
    << "0","1","2","3","4","5","6","7","8","9","a","b","c","d","e","f" >>

\* the value of a hexadecimal digit, of either case
HexValue(c) ==
    IF \E x \in 1..16 : HexDigits[x] = c
    THEN (CHOOSE x \in 1..16 : HexDigits[x] = c) - 1
    ELSE (CHOOSE x \in 11..16 : upper(HexDigits[x]) = << c >>) - 1

\* the one-letter escapes of a bytes literal and the bytes they stand for
EscapeLetters == << "\\", "'", "\"", "a", "b", "f", "n", "r", "t", "v" >>

EscapeBytes == << 92, 39, 34, 7, 8, 12, 10, 13, 9, 11 >>

RECURSIVE bytes_from(_, _)
\* the bytes denoted by a Python bytes literal from its i-th character on:
\* \xhh is the byte hh, a one-letter escape its byte, and a backslash
\* before a character that begins no escape stays in the value as a
\* backslash (the literals of the scripts hold no octal escape)
bytes_from(text, i) ==
    IF i > Len(text) THEN << >>
    ELSE IF text[i] # "\\" THEN << ord(text[i]) >> \o bytes_from(text, i + 1)
    ELSE IF text[i + 1] = "x"
         THEN << 16 * HexValue(text[i + 2]) + HexValue(text[i + 3]) >>
                \o bytes_from(text, i + 4)
    ELSE IF \E x \in 1..Len(EscapeLetters) : EscapeLetters[x] = text[i + 1]
         THEN << EscapeBytes[CHOOSE x \in 1..Len(EscapeLetters) :
                               EscapeLetters[x] = text[i + 1]] >>
                \o bytes_from(text, i + 2)
    ELSE << 92 >> \o bytes_from(text, i + 1)

\* the bytes a Python bytes literal denotes: a literal without a backslash
\* denotes the codes of its characters, one byte each
bytes_literal(text) ==
    IF \A x \in 1..Len(text) : text[x] # "\\"
    THEN [ x \in 1..Len(text) |-> ord(text[x]) ]
    ELSE bytes_from(text, 1)

\* the text of the salt literal of Fase5_cracker.py
salt_literal ==
    << "\\","x","d","2","\\","x","f","f","s","~","\\","x","b","4",
       "\\","x","f","2","\\","x","d","3","\\","x","d","a","\\","x",
       "e","3","\\","x","1","6","(","'","\\","x","e","6","\\","x",
       "a","d","\\","x","e","f","\\","x","a","f" >>

\* the text of the ciphertext literal of Fase5_cracker.py
ciphertext_literal ==
    << "g","A","A","A","A","A","B","n","E","2","P","-","q","q",
       "J","T","-","H","u","d","M","b","L","c","y","k","z","I",
       "x","8","3","X","q","Z","N","E","t","6","U","q","f","y",
       "B","B","z","h","Y","K","v","l","F","9","W","S","x","8",
       "F","J","U","v","U","m","a","t","z","u","Y","1","-","i",
       "o","9","R","H","W","a","j","7","R","V","B","u","A","K",
       "T","W","R","A","V","T","9","G","p","G","C","-","-","T",
       "Z","U","X","k","3","8","7","q","e","T","C","2","j","I",
       "J","O","f","U","r","w","S","X","3","e","G","E","b","1",
       "E","V","F","Z","B","O","q","A","L","d","8","E","K","S",
       "1","C","F","W","U","o","F","4","N","p","z","K","s","c",
       "3","e","L","e","C","n","X","i","h","b","-","w","6","B",
       "o","q","i","8","3","5","u","N","z","N","6","m","Z","z",
       "4","i","P","-","6","s","S","k","h","N","x","H","P","-",
       "T","b","r","G","-","B","N","g","j","M","I","y","e","R",
       "D","j","S","L","A","Z","h","E","A","J","o","U","G","l",
       "z","_","Q","u","O","y","y","O","Y","H","M","a","b","9",
       "L","U","r","X","k","H","i","b","U","=" >>

\* salt of Fase5_cracker.py
salt == bytes_literal(salt_literal)

\* ciphertext of Fase5_cracker.py
ciphertext == bytes_literal(ciphertext_literal)

\* the text of the salt literal of Fase3_benchmark.py
benchmark_salt_literal ==
    << "\\","x","d","2","\\","x","f","f","s","~","\\","x","b","4",
       "\\","x","f","2","\\","x","d","3","\\","d","a","\\","x","e",
       "3","\\","x","1","6","(","'","\\","x","e","6","\\","x","a",
       "d","\\","x","e","f","\\","x","a","f" >>

\* the text of the ciphertext literal of Fase3_benchmark.py
benchmark_ciphertext_literal ==
    << "g","A","A","A","A","A","B","m","E","2","P","-","q","q",
       "J","T","-","H","u","d","M","b","L","c","y","k","z","I",
       "x","8","3","X","q","Z","N","E","t","6","U","q","f","y",
       "B","B","z","h","Y","K","v","l","F","9","W","S","x","8",
       "F","J","U","v","U","m","a","t","z","u","Y","l","-","i",
       "O","9","R","H","w","A","j","7","R","V","B","u","A","k",
       "T","w","R","A","V","T","9","G","p","C","C","-","-","T",
       "Z","U","X","k","3","8","7","q","e","T","C","2","j","I",
       "J","O","f","U","r","w","S","X","3","e","G","E","b","1",
       "E","V","F","Z","B","O","q","A","L","d","8","E","K","S",
       "1","C","F","W","U","o","F","4","N","p","z","K","s","c",
       "3","e","L","e","C","n","X","i","h","b","-","w","6","B",
       "o","q","i","8","3","5","u","N","z","N","6","m","Z","z",
       "4","i","P","-","6","s","S","k","h","N","x","H","F","-",
       "T","b","r","G","-","B","N","g","j","M","I","y","e","R",
       "D","j","S","L","A","Z","H","E","A","J","o","U","G","l",
       "z","_","Q","u","O","y","y","O","Y","H","M","a","b","9",
       "L","U","r","X","k","H","i","b","U","=" >>

\* salt of Fase3_benchmark.py
benchmark_salt == bytes_literal(benchmark_salt_literal)

\* ciphertext of Fase3_benchmark.py
benchmark_ciphertext == bytes_literal(benchmark_ciphertext_literal)

----------------------------------------------------------------------------
(* Fase4_final_calculator.py and Fase3_benchmark.py.                       *)

calculator_dictionary ==
    << << "g","a","t","t","o" >>,
       << "g","i","u","l","i","a" >>,
       << "m","a","r","t","i","n","a" >>,
       << "p","a","s","s","w","o","r","d" >>,
       << "p","i","s","a" >>,
       << "p","o","e","s","i","a" >>,
       << "q","w","e","r","t","y" >>,
       << "s","i","c","u","r","e","z","z","a" >>,
       << "s","t","o","r","i","a" >>,
       << "t","a","v","o","l","o" >> >>

special_chars == << "!", "$", "%", "&", "?", "^", "*", "+", "@", "#" >>

calculator_numbers == << "0","1","2","3","4","5","6","7","8","9" >>

\* combinations_for_this_word = capitalization_options
\*   * number_insertion_options * symbol_insertion_options
combinations_for_this_word(word) ==
    LET word_len == Len(word)
        capitalization_options == word_len
        number_insertion_options == Len(calculator_numbers) * (word_len + 1)
        symbol_insertion_options == Len(special_chars) * (word_len + 2)
    IN  capitalization_options * number_insertion_options
          * symbol_insertion_options

\* the speed written into the calculator, 58.13 H/s
measured_passwords_per_second == Ratio(5813, 100)

\* the speeds the calculator is run with: the one in the source, other
\* positive ones, zero and a negative one
CalculatorSpeeds ==
    { measured_passwords_per_second, Ratio(1, 1), Ratio(1, 2), Ratio(250, 1),
      Ratio(0, 1), Ratio(-5813, 100) }

NoEstimate == Ratio(0, 1)

CalcIdle ==
    [ pc |-> "idle", word |-> 0, total_combinations |-> 0,
      passwords_per_second |-> NoEstimate, estimated |-> FALSE,
      time_seconds |-> NoEstimate, time_minutes |-> NoEstimate,
      time_hours |-> NoEstimate, avg_time_hours |-> NoEstimate ]

\* an average that is not halved
avg_time_hours_unhalved(time_hours) == time_hours

\* avg_time_hours = time_hours / 2
avg_time_hours(time_hours) == RatDivInt(time_hours, 2)

\* one iteration of the loop over the calculator's dictionary (l.67-98)
CalcWord ==
    /\ script = "Fase4"
    /\ calc.pc = "words"
    /\ calc.word <= Len(calculator_dictionary)
    /\ calc' = [ calc EXCEPT
                   !.total_combinations =
                       @ + combinations_for_this_word(
                               calculator_dictionary[calc.word]),
                   !.word = @ + 1 ]
    /\ UNCHANGED << dictionary, symbols, numbers, target, gen, yielded,
                    password_guess, attempts, password_found, pc, clock,
                    observations, progress, reported, script, bench >>

\* the time estimate (l.108-126)
CalcEstimate ==
    /\ script = "Fase4"
    /\ calc.pc = "words"
    /\ calc.word > Len(calculator_dictionary)
    /\ IF calc.passwords_per_second.num > 0
       THEN LET time_seconds == RatDiv(FromInt(calc.total_combinations),
                                       calc.passwords_per_second)
                time_minutes == RatDivInt(time_seconds, 60)
                time_hours   == RatDivInt(time_minutes, 60)
            IN  calc' = [ calc EXCEPT
                            !.pc = "done",
                            !.estimated = TRUE,
                            !.time_seconds = time_seconds,
                            !.time_minutes = time_minutes,
                            !.time_hours = time_hours,
                            !.avg_time_hours = avg_time_hours(time_hours) ]
       ELSE calc' = [ calc EXCEPT !.pc = "done" ]
    /\ UNCHANGED << dictionary, symbols, numbers, target, gen, yielded,
                    password_guess, attempts, password_found, pc, clock,
                    observations, progress, reported, script, bench >>

number_of_passwords_to_test == 1000

total_combinations_example == 422400

BenchIdle ==
    [ pc |-> "idle", i |-> 0, progress_lines |-> 0, total_duration |-> 0,
      passwords_per_second |-> NoEstimate, estimated |-> FALSE,
      impossible |-> FALSE,
      estimated_time_seconds_worst_case |-> NoEstimate,
      estimated_time_seconds_avg_case |-> NoEstimate ]

\* the benchmark after l.53-79: its Target is set and the loop is to start
BenchStart ==
    [ pc |-> "loop", i |-> 0, progress_lines |-> 0, total_duration |-> 0,
      passwords_per_second |-> NoEstimate, estimated |-> FALSE,
      impossible |-> FALSE,
      estimated_time_seconds_worst_case |-> NoEstimate,
      estimated_time_seconds_avg_case |-> NoEstimate,
      salt |-> benchmark_salt, ciphertext |-> benchmark_ciphertext ]

\* total_combinations_example / passwords_per_second
estimated_time_seconds_worst_case(total, passwords_per_second) ==
    RatDiv(FromInt(total), passwords_per_second)

\* estimated_time_seconds_worst_case / 2
estimated_time_seconds_avg_case(worst_case) == RatDivInt(worst_case, 2)

\* one iteration of the benchmark loop (l.80-84): check_password_silent
\* returns nothing and swallows InvalidToken; a line every 100 passwords
BenchAttempt ==
    /\ script = "Fase3"
    /\ bench.pc = "loop"
    /\ bench.i < number_of_passwords_to_test
    /\ bench' = [ bench EXCEPT
                    !.i = @ + 1,
                    !.progress_lines =
                        IF (bench.i + 1) % 100 = 0 THEN @ + 1 ELSE @ ]
    /\ UNCHANGED << dictionary, symbols, numbers, target, gen, yielded,
                    password_guess, attempts, password_found, pc, clock,
                    observations, progress, reported, script, calc >>

\* the metrics (l.85-92): the duration is read from the clock; dividing by
\* a duration of 0 raises ZeroDivisionError
BenchMetrics ==
    /\ script = "Fase3"
    /\ bench.pc = "loop"
    /\ bench.i = number_of_passwords_to_test
    /\ \E total_duration \in 0..MaxDuration :
         bench' = IF total_duration = 0
                  THEN [ bench EXCEPT !.pc = "ZeroDivisionError" ]
                  ELSE [ bench EXCEPT
                           !.pc = "metrics",
                           !.total_duration = total_duration,
                           !.passwords_per_second =
                               Ratio(number_of_passwords_to_test,
                                     total_duration) ]
    /\ UNCHANGED << dictionary, symbols, numbers, target, gen, yielded,
                    password_guess, attempts, password_found, pc, clock,
                    observations, progress, reported, script, calc >>

\* the estimation example (l.118-139)
BenchEstimate ==
    /\ script = "Fase3"
    /\ bench.pc = "metrics"
    /\ IF bench.passwords_per_second.num > 0
       THEN LET worst == estimated_time_seconds_worst_case(
                             total_combinations_example,
                             bench.passwords_per_second)
            IN  bench' = [ bench EXCEPT
                             !.pc = "done",
                             !.estimated = TRUE,
                             !.estimated_time_seconds_worst_case = worst,
                             !.estimated_time_seconds_avg_case =
                                 estimated_time_seconds_avg_case(worst) ]
       ELSE bench' = [ bench EXCEPT !.pc = "done", !.impossible = TRUE ]
    /\ UNCHANGED << dictionary, symbols, numbers, target, gen, yielded,
                    password_guess, attempts, password_found, pc, clock,
                    observations, progress, reported, script, calc >>

----------------------------------------------------------------------------
(* The attack script.                                                      *)

\* the cadence of the progress lines
ProgressEvery == 5000

\* a cadence test that also fires before the first attempt is counted
progress_due_from_zero(n) == (n - 1) % ProgressEvery = 0

\* attempts % 5000 == 0
progress_due(n) == n % ProgressEvery = 0

\* attempts / elapsed_time if elapsed_time > 0 else 0
speed(n, elapsed_time) ==
    IF elapsed_time > 0 THEN Ratio(n, elapsed_time) ELSE Ratio(0, 1)

NoProgress == [ attempts |-> 0, elapsed |-> 0, speed |-> Ratio(0, 1) ]

NoPassword == << >>

\* the state after l.125-130: counters at zero, the generator created and
\* not yet started
Start ==
    /\ gen = Fresh
    /\ yielded = [ w \in 1..Len(dictionary) |-> 0 ]
    /\ password_guess = NoPassword
    /\ attempts = 0
    /\ password_found = FALSE
    /\ pc = "Running"
    /\ clock = 0
    /\ observations = 0
    /\ progress = NoProgress
    /\ reported = NoPassword
    /\ script = "Fase5"
    /\ calc = CalcIdle
    /\ bench = BenchIdle

\* the Targets of a configuration: a valid token made with a password,
\* with text or binary plaintext, and the tokens Fernet cannot parse
Targets(passwords) ==
    { Target("valid", p, u) : p \in passwords, u \in BOOLEAN }
      \cup { Target("empty", NoPassword, TRUE),
             Target("malformed", NoPassword, TRUE) }

\* the Targets tried against the reference wordlists.  QUICK_TEST: the
\* password is the first candidate, one past the second progress line, one
\* with binary plaintext, or the password of the controlled test case,
\* which no wordlist yields; or the ciphertext is empty.
\* FULL: the first candidate of the second word, or the test-case password.
ReferenceTargets(ATTACK_MODE) ==
    IF ATTACK_MODE = "QUICK_TEST"
    THEN { Target("valid", p, TRUE) :
             p \in { << "0","!","S","i","c","u","r","e","z","z","a" >>,
                     << "!","s","I","c","u","r","e","z","z","a","0" >>,
                     password_da_usare } }
           \cup { Target("valid",
                         << "S","i","c","u","r","e","z","&","z","a","7" >>,
                         FALSE),
                  Target("empty", NoPassword, TRUE) }
    ELSE { Target("valid", p, TRUE) :
             p \in { << "0","!","G","i","u","l","i","a" >>,
                     password_da_usare } }

\* the script as written (ATTACK_MODE = "QUICK_TEST") or switched to the
\* full attack, with the reference symbols and digits
InitReference ==
    \E ATTACK_MODE \in { "QUICK_TEST", "FULL" } :
        /\ dictionary = dictionary_to_use(ATTACK_MODE)
        /\ symbols = reference_symbols
        /\ numbers = reference_numbers
        /\ target \in ReferenceTargets(ATTACK_MODE)
        /\ Start

\* base words of the bounded inputs: the prefixes of a lowercase word
\* that starts with the reference word "pisa", the empty one included
SmallWords == { Take(<< "p","i","s","a","n","o" >>, n) : n \in 0..MaxLetters }

\* the letters of a wordlist
Letters(dict) == SumTo([ w \in 1..Len(dict) |-> Len(dict[w]) ], Len(dict))

SmallDictionaries ==
    { dict \in UNION { [ 1..n -> SmallWords ] : n \in 0..MaxWords } :
        Letters(dict) <= MaxLetters }

\* bounded inputs: every wordlist of at most MaxWords small words and
\* MaxLetters letters, two symbols, two digits, and every Target whose
\* password is a candidate of the wordlist or the password of the
\* controlled test case
InitSmall ==
    /\ dictionary \in SmallDictionaries
    /\ symbols = << "!", "$" >>
    /\ numbers = << "0", "1" >>
    /\ target \in Targets(CandidateSpace(dictionary, symbols, numbers)
                             \cup { password_da_usare })
    /\ Start

Init == InitSmall \/ InitReference

\* one iteration of the main loop (l.133-145): the next candidate is pulled,
\* counted, a progress line is printed when due, and decrypt decides.
\* time.time() is read as a clock that does not run backwards.
Attempt ==
    /\ pc = "Running"
    /\ GenNext(gen).st = "yield"
    /\ gen' = GenNext(gen)
    /\ yielded' = [ yielded EXCEPT ![gen'.w] = @ + 1 ]
    /\ password_guess' = Candidate(gen')
    /\ attempts' = attempts + 1
    /\ IF progress_due(attempts')
       THEN \E now \in clock..MaxClock :
              /\ clock' = now
              /\ observations' = observations + 1
              /\ progress' = [ attempts |-> attempts', elapsed |-> now,
                               speed |-> speed(attempts', now) ]
       ELSE UNCHANGED << clock, observations, progress >>
    /\ LET outcome == decrypt(password_guess')
       IN  /\ reported' = IF outcome = "False" THEN reported
                          ELSE password_guess'
           /\ password_found' = (outcome = "True")
           /\ pc' = CASE outcome = "True" -> "Succeeded"
                      [] outcome = "False" -> "Running"
                      [] OTHER -> "Crashed"
    /\ UNCHANGED << dictionary, symbols, numbers, target, script, calc,
                    bench >>

\* the generator raises StopIteration: the loop ends without a break and
\* the summary reports the failure (l.147-156)
Exhaust ==
    /\ pc = "Running"
    /\ GenNext(gen).st = "done"
    /\ gen' = GenNext(gen)
    /\ pc' = "Exhausted"
    /\ UNCHANGED << dictionary, symbols, numbers, target, yielded,
                    password_guess, attempts, password_found, clock,
                    observations, progress, reported, script, calc, bench >>

Next == Attempt \/ Exhaust

Spec == Init /\ [][Next]_vars

----------------------------------------------------------------------------
(* The estimation scripts as a specification.                              *)

\* one of the two estimation scripts is started; the attack is not run
InitEst ==
    /\ dictionary = << >>
    /\ symbols = reference_symbols
    /\ numbers = reference_numbers
    /\ target = Target("valid", password_da_usare, TRUE)
    /\ gen = Fresh
    /\ yielded = << >>
    /\ password_guess = NoPassword
    /\ attempts = 0
    /\ password_found = FALSE
    /\ pc = "idle"
    /\ clock = 0
    /\ observations = 0
    /\ progress = NoProgress
    /\ reported = NoPassword
    /\ \/ /\ script = "Fase4"
          /\ \E r \in CalculatorSpeeds :
                calc = [ CalcIdle EXCEPT !.pc = "words", !.word = 1,
                                         !.passwords_per_second = r ]
          /\ bench = BenchIdle
       \/ /\ script = "Fase3"
          /\ calc = CalcIdle
          /\ bench = BenchStart

NextEst == CalcWord \/ CalcEstimate \/ BenchAttempt \/ BenchMetrics
             \/ BenchEstimate

SpecEst == InitEst /\ [][NextEst]_vars

----------------------------------------------------------------------------
(* Closed-form size of the space.                                          *)

\* n * |symbols| * (n+1) * |digits| * (n+2)
ClosedForm(n, nsym, ndig) == n * nsym * (n + 1) * ndig * (n + 2)

\* the closed-form total of a wordlist
TotalCount(dict, syms, nums) ==
    SumTo([ w \in 1..Len(dict) |->
              ClosedForm(Len(dict[w]), Len(syms), Len(nums)) ], Len(dict))

\* the generator has left word w behind
WordDone(w) == gen.st = "done" \/ (gen.st = "yield" /\ w < gen.w)

\* the Target decrypts under some candidate of the wordlist in use
SomeCandidateDecrypts ==
    /\ target.token = "valid"
    /\ \E w \in 1..Len(dictionary) :
         \E i \in 0..(Len(dictionary[w]) - 1), s \in 1..Len(symbols),
            j \in 0..Len(dictionary[w]), d \in 1..Len(numbers),
            k \in 0..(Len(dictionary[w]) + 1) :
              target.password =
                final_password(
                    word_with_sym(capitalized_word(dictionary[w], i),
                                  symbols[s], j),
                    numbers[d], k)

ReferenceConfiguration ==
    /\ dictionary \in { quick_test_dictionary, full_dictionary }
    /\ symbols = reference_symbols
    /\ numbers = reference_numbers

----------------------------------------------------------------------------
(* C1: for every base word of length n (0 included) the generator yields   *)
(* exactly n * |symbols| * (n+1) * |digits| * (n+2) candidates, a wordlist *)
(* yields the sum over its words, and QUICK_TEST yields exactly 99000.     *)
C1_CandidateCount ==
    /\ \A w \in 1..Len(dictionary) :
          /\ yielded[w] <= ClosedForm(Len(dictionary[w]), Len(symbols),
                                      Len(numbers))
          /\ WordDone(w) =>
                yielded[w] = ClosedForm(Len(dictionary[w]), Len(symbols),
                                        Len(numbers))
    /\ gen.st = "done" =>
          SumTo(yielded, Len(dictionary))
            = TotalCount(dictionary, symbols, numbers)
    /\ (gen.st = "done" /\ ReferenceConfiguration
          /\ dictionary = quick_test_dictionary) =>
          SumTo(yielded, Len(dictionary)) = 99000

\* the QUICK_TEST run has been enumerated to its end: 99000 candidates
C1_Witness ==
    /\ gen.st = "done"
    /\ dictionary = quick_test_dictionary
    /\ symbols = reference_symbols
    /\ yielded[1] = 99000

(* C3: if no candidate decrypts the Target, the attack ends Exhausted with *)
(* password_found false and attempts equal to the closed-form total of the *)
(* wordlist in use.                                                        *)
C3_ExhaustedCountsAll ==
    /\ pc = "Exhausted" =>
          /\ ~password_found
          /\ attempts = TotalCount(dictionary, symbols, numbers)
    /\ (pc # "Running" /\ ~SomeCandidateDecrypts) => pc = "Exhausted"

\* a run over a two-word list against a valid token no candidate opens
C3_Witness ==
    /\ pc = "Exhausted"
    /\ target.token = "valid"
    /\ Len(dictionary) = 2
    /\ attempts > ClosedForm(Len(dictionary[1]), Len(symbols), Len(numbers))
    /\ Len(dictionary[1]) > 0

(* C5: candidates come in the nested order word -> capitalized position i  *)
(* -> symbol -> symbol position j -> digit -> digit position k, k fastest: *)
(* the candidate at 0-based index m within a word is the one whose tuple   *)
(* (i, symbol index, j, digit index, k) is the mixed-radix decomposition   *)
(* of m, words are taken in wordlist order, and the first candidate of a   *)
(* word is digits[0] + symbols[0] + the word with its first letter         *)
(* uppercased.                                                             *)
C5_EnumerationOrder ==
    gen.st = "yield" =>
      LET w  == gen.w
          n  == Len(dictionary[w])
          S  == Len(symbols)
          D  == Len(numbers)
          m  == yielded[w] - 1
          k  == m % (n + 2)
          d  == (m \div (n + 2)) % D
          j  == (m \div ((n + 2) * D)) % (n + 1)
          s  == (m \div ((n + 2) * D * (n + 1))) % S
          i  == m \div ((n + 2) * D * (n + 1) * S)
      IN  /\ m >= 0 /\ i < n
          /\ gen = Frame(w, i, s, j, d, k)
          /\ password_guess =
                final_password(
                    word_with_sym(capitalized_word(dictionary[w], i),
                                  symbols[s + 1], j),
                    numbers[d + 1], k)
          /\ m = 0 =>
                password_guess =
                  << numbers[1], symbols[1] >>
                    \o upper(dictionary[w][1]) \o Drop(dictionary[w], 1)
          /\ \A v \in 1..Len(dictionary) :
                /\ v < w => yielded[v] = ClosedForm(Len(dictionary[v]), S, D)
                /\ v > w => yielded[v] = 0
          /\ attempts = SumTo(yielded, Len(dictionary))

\* a candidate of the second word with every loop past its first iteration
C5_Witness ==
    /\ gen.st = "yield"
    /\ gen.w = 2 /\ gen.i > 0 /\ gen.s > 0 /\ gen.j > 0 /\ gen.d > 0
    /\ gen.k > 0
    /\ yielded[1] > 0

(* C2: if some candidate decrypts the Target, the driver stops at the      *)
(* first such candidate in generation order: password_found is true,       *)
(* attempts is that candidate's 1-based position, the reported password is *)
(* that candidate, and no later candidate is pulled or verified.           *)
C2_StopsAtFirstMatch ==
    /\ (gen.st = "yield" /\ decrypt(password_guess) # "False") =>
          /\ password_found
          /\ pc = "Succeeded"
          /\ reported = password_guess
          /\ attempts = SumTo(yielded, Len(dictionary))
    /\ (pc # "Running" /\ SomeCandidateDecrypts) =>
          /\ password_found
          /\ gen.st = "yield"
          /\ password_guess = target.password

(* C4: the driver is a state machine over Running, Succeeded, Exhausted;   *)
(* it starts Running and ends in exactly one of Succeeded and Exhausted:   *)
(* Succeeded only on a verifier success, Exhausted only when the generator *)
(* is exhausted with no success, and no step leaves either.                *)
C4_DriverStateMachine ==
    /\ pc \in { "Running", "Succeeded", "Exhausted" }
    /\ attempts = 0 => pc \in { "Running", "Exhausted" }
    /\ pc = "Succeeded" =>
          password_found /\ decrypt(password_guess) = "True"
    /\ pc = "Exhausted" => ~password_found /\ gen.st = "done"
    /\ pc = "Running" => ~password_found /\ ENABLED Next
    /\ pc # "Running" => ~ENABLED Next

(* C6: for every candidate decrypt returns True or False and no exception  *)
(* reaches the driver loop: every failure of a verification is a "no       *)
(* match", counted in attempts, after which the driver goes on.            *)
C6_VerifierNeverRaises ==
    gen.st = "yield" =>
      /\ decrypt(password_guess) \in { "True", "False" }
      /\ decrypt(password_guess) = "True" => password_found
      /\ decrypt(password_guess) = "False" => pc = "Running"

(* C7: with a malformed Target (an empty ciphertext, a token that does not *)
(* parse) the run fails at startup: no candidate is generated or verified, *)
(* attempts stays 0 and the driver never runs to Exhausted.                *)
C7_MalformedTargetAbortsAtStartup ==
    target.token # "valid" =>
      /\ attempts = 0
      /\ password_guess = NoPassword

\* the string with the characters of a set removed
Without(str, chars) == SelectSeq(str, LAMBDA c : c \notin chars)

\* how many characters of a string are in a set
CountIn(str, chars) == Cardinality({ x \in 1..Len(str) : str[x] \in chars })

(* C8: every candidate generated from a base word w of the reference       *)
(* wordlist has length len(w)+2, holds exactly one symbol and exactly one  *)
(* digit, and without them is w with exactly one position uppercased and   *)
(* every other position unchanged.                                         *)
C8_CandidateStructure ==
    (gen.st = "yield" /\ ReferenceConfiguration) =>
      LET w == dictionary[gen.w]
          r == Without(password_guess, Range(symbols) \cup Range(numbers))
      IN  /\ Len(password_guess) = Len(w) + 2
          /\ CountIn(password_guess, Range(symbols)) = 1
          /\ CountIn(password_guess, Range(numbers)) = 1
          /\ Len(r) = Len(w)
          /\ \E x \in 1..Len(w) :
                /\ r[x] # w[x]
                /\ r[x] \in Range(UpperLetters)
                /\ << r[x] >> = upper(w[x])
                /\ \A y \in 1..Len(w) : y # x => r[y] = w[y]

\* a candidate of the last word of the full wordlist, its last letter
\* capitalized
C8_Witness ==
    /\ gen.st = "yield"
    /\ dictionary = full_dictionary
    /\ gen.w = Len(full_dictionary)
    /\ gen.i = Len(full_dictionary[gen.w]) - 1
    /\ gen.j > 0 /\ gen.k > 0

(* C9: a progress line is printed exactly when attempts is a positive      *)
(* multiple of 5000, so at every point of the run the number of lines      *)
(* printed is floor(attempts / 5000); each line reports the current        *)
(* attempts and the speed attempts / elapsed (0 when elapsed is 0).        *)
C9_ProgressCadence ==
    /\ observations = attempts \div 5000
    /\ observations = 0 => progress = NoProgress
    /\ observations > 0 =>
          /\ progress.attempts = observations * 5000
          /\ progress.elapsed <= clock
          /\ progress.speed =
                IF progress.elapsed = 0 THEN Ratio(0, 1)
                ELSE Ratio(progress.attempts, progress.elapsed)

\* the run has ended after at least two progress lines, the last of them
\* with a positive elapsed time
C9_Witness ==
    /\ pc \in { "Succeeded", "Exhausted" }
    /\ observations >= 2
    /\ attempts % 5000 # 0
    /\ progress.elapsed > 0

(* C10: with a measured throughput r > 0 and the closed-form total T the   *)
(* worst-case estimate is T / r and the average-case estimate is T / (2r), *)
(* exactly half of the worst case, in the calculator and in the            *)
(* benchmark's example; when r is not positive no estimate is produced.    *)
C10_TimeEstimates ==
    /\ calc.pc = "done" =>
          LET r == calc.passwords_per_second
              T == calc.total_combinations
          IN  /\ T = TotalCount(calculator_dictionary, special_chars,
                                calculator_numbers)
              /\ calc.estimated = (r.num > 0)
              /\ r.num > 0 =>
                    /\ calc.time_seconds = RatDiv(FromInt(T), r)
                    /\ calc.time_hours = RatDivInt(calc.time_seconds, 3600)
                    /\ calc.avg_time_hours =
                          RatDivInt(RatDiv(FromInt(T),
                                           Ratio(2 * r.num, r.den)), 3600)
                    /\ Ratio(2 * calc.avg_time_hours.num,
                             calc.avg_time_hours.den) = calc.time_hours
    /\ bench.pc = "done" =>
          LET r == bench.passwords_per_second
              T == total_combinations_example
          IN  /\ bench.estimated = (r.num > 0)
              /\ r.num > 0 =>
                    /\ bench.estimated_time_seconds_worst_case
                          = RatDiv(FromInt(T), r)
                    /\ bench.estimated_time_seconds_avg_case
                          = RatDiv(FromInt(T), Ratio(2 * r.num, r.den))
                    /\ Ratio(2 * bench.estimated_time_seconds_avg_case.num,
                             bench.estimated_time_seconds_avg_case.den)
                          = bench.estimated_time_seconds_worst_case

\* the calculator has produced its estimate for the speed in the source
C10_Witness ==
    /\ calc.pc = "done"
    /\ calc.estimated
    /\ calc.passwords_per_second = measured_passwords_per_second
    /\ calc.total_combinations = 422400

(* C11: the benchmark measures against the Target the cracker attacks: the *)
(* salt and the ciphertext of Fase3_benchmark.py are byte for byte those   *)
(* of Fase5_cracker.py, and the salt is 16 bytes long in both.             *)
C11_BenchmarkUsesCrackerTarget ==
    script = "Fase3" =>
      /\ Len(salt) = 16
      /\ Len(bench.salt) = 16
      /\ bench.salt = salt
      /\ bench.ciphertext = ciphertext

\* the number of candidates the generator yields over a whole FULL run:
\* by C1 the yields of a finished run sum to the closed-form total of its
\* wordlist, and the FULL run of Spec ends with that sum
FullModeCount ==
    TotalCount(dictionary_to_use("FULL"), reference_symbols,
               reference_numbers)

(* C12: the total the calculator computes over its dictionary, which is    *)
(* also the 422400 of the benchmark's estimate, is the size of the space   *)
(* the full attack explores: it is the number of candidates the generator  *)
(* yields in FULL mode.                                                    *)
C12_CalculatorTotalIsFullSpace ==
    /\ (script = "Fase4" /\ calc.word > Len(calculator_dictionary)) =>
          calc.total_combinations = FullModeCount
    /\ (script = "Fase3" /\ bench.estimated) =>
          total_combinations_example = FullModeCount

\* the preconditions of a run without repetition: the base words are
\* pairwise distinct and made of lowercase letters only, the symbols and
\* the digits are duplicate-free, disjoint and hold no letter
DistinctConfiguration ==
    /\ \A v, w \in 1..Len(dictionary) :
          v # w => dictionary[v] # dictionary[w]
    /\ \A w \in 1..Len(dictionary) :
          Range(dictionary[w]) \subseteq Range(LowerLetters)
    /\ Cardinality(Range(symbols)) = Len(symbols)
    /\ Cardinality(Range(numbers)) = Len(numbers)
    /\ Range(symbols) \cap Range(numbers) = {}
    /\ (Range(symbols) \cup Range(numbers))
          \cap (Range(LowerLetters) \cup Range(UpperLetters)) = {}

\* the string without its x-th character
RemoveAt(str, x) == Take(str, x - 1) \o Drop(str, x)

\* position x of a string, counted from 1, is the only one that holds a
\* character of a set
OnlyAt(str, chars, x) ==
    \A y \in 1..Len(str) : (str[y] \in chars) <=> (y = x)

\* the capital letters
Capitals == Range(UpperLetters)

\* the string just yielded fixes, by itself, the frame that yielded it: its
\* only digit and the digit's place are the frame's d and k, its only
\* symbol and the symbol's place among the rest are the frame's s and j,
\* the only capital of what is left is at the frame's i, and the frame's
\* base word is the only one that gives what is left when that letter is
\* uppercased
StringFixesFrame ==
    LET q == RemoveAt(password_guess, gen.k + 1)
        c == RemoveAt(q, gen.j + 1)
    IN  /\ OnlyAt(password_guess, Range(numbers), gen.k + 1)
        /\ OnlyAt(numbers, { password_guess[gen.k + 1] }, gen.d + 1)
        /\ OnlyAt(q, Range(symbols), gen.j + 1)
        /\ OnlyAt(symbols, { q[gen.j + 1] }, gen.s + 1)
        /\ OnlyAt(c, Capitals, gen.i + 1)
        /\ \A w \in 1..Len(dictionary) :
              (/\ Len(dictionary[w]) = Len(c)
               /\ capitalized_word(dictionary[w], gen.i) = c) <=> (w = gen.w)

(* C13: with pairwise distinct lowercase base words and disjoint,          *)
(* duplicate-free symbol and digit sets, as in the reference               *)
(* configuration, the generator never yields the same string twice over a  *)
(* run: the string alone fixes the word and the five loop positions, and   *)
(* the generator is at each of them once (C5), so the distinct candidates  *)
(* are as many as the closed form counts and none is verified twice.  A    *)
(* string that does not fix its frame is yielded only where the            *)
(* preconditions fail.                                                     *)
C13_NoCandidateTwice ==
    gen.st = "yield" => (~StringFixesFrame => ~DistinctConfiguration)

\* the last candidate of the FULL run of the reference configuration and
\* the last candidate of a run over two distinct small words
C13_Witness ==
    /\ gen.st = "yield"
    /\ DistinctConfiguration
    /\ Resume(gen).st = "done"
    /\ \/ dictionary = dictionary_to_use("FULL") /\ attempts = 350400
       \/ Len(dictionary) = 2 /\ gen.w = 2 /\ Len(dictionary[1]) > 0

=============================================================================
